---- MODULE Spec2Model ----
(***************************************************************************)
(* Reliable ordered data transfer over a byte stream: the sender           *)
(* (client.py: fragmenter, sliding-window transmission task, ack-intake    *)
(* thread) and the receiver (server.py: slotting, cumulative acks,         *)
(* reassembly).                                                            *)
(*                                                                         *)
(* Bytes and code points are integers.  A wire frame is the record         *)
(* [seq_num, ack_msg, data]: the timestamp field of the header is written  *)
(* by pack() but read by no receiver of a frame, so frames do not carry    *)
(* it.  The sender reads a timestamp only in check_timeout, to compare the *)
(* head packet's age with TIMEOUT, so the window keeps for each packet     *)
(* whether its age exceeds TIMEOUT ("expired"); packets expire in the      *)
(* order they were sent, at any time after they were sent.  A read of the  *)
(* stream returns one whole frame, the end of the stream or an error.      *)
(***************************************************************************)
EXTENDS Integers, Sequences, FiniteSets, TLC

\* ---------------------------------------------------------------- bounds
\* longest message, in code points
MaxLen == 3
\* largest maximum payload size the server announces
MaxM == 2
\* largest sliding window
MaxW == 2
\* retransmission rounds (timeouts that fire) the clock allows in one session
MaxTimeouts == 1
\* packets the environment feeds to a receiver on its own
MaxFeed == 5
\* acks the environment feeds to a sender's ack intake on its own
MaxAcks == 4

\* ------------------------------------------------------------- constants
\* b' ' (client.py:263, client.py:47, server.py:78)
SPACE == 32
\* code points a message is drawn from: ' ', 'a' and U+00E9 (two bytes in UTF-8)
Alphabet == {32, 97, 233}

\* all sequences over S of length 0..n
RECURSIVE SeqsUpTo(_, _)
SeqsUpTo(S, n) ==
    IF n = 0 THEN {<<>>}
    ELSE LET shorter == SeqsUpTo(S, n - 1)
         IN  shorter \cup {Append(s, x) : s \in {t \in shorter : Len(t) = n - 1}, x \in S}

Messages == SeqsUpTo(Alphabet, MaxLen)

Min(a, b) == IF a < b THEN a ELSE b

\* ------------------------------------------------------- str <-> bytes
\* message.encode(): UTF-8, one byte below U+0080, two bytes below U+0800
RECURSIVE Encode(_)
Encode(s) ==
    IF s = <<>> THEN <<>>
    ELSE LET c == Head(s)
         IN  (IF c < 128 THEN <<c>> ELSE <<192 + (c \div 64), 128 + (c % 64)>>)
             \o Encode(Tail(s))

\* whether message_bytes.decode() succeeds (no UnicodeDecodeError)
RECURSIVE Decodable(_)
Decodable(b) ==
    IF b = <<>> THEN TRUE
    ELSE IF Head(b) < 128 THEN Decodable(Tail(b))
    ELSE /\ Head(b) >= 194 /\ Head(b) <= 223
         /\ Len(b) >= 2
         /\ b[2] >= 128 /\ b[2] <= 191
         /\ Decodable(Tail(Tail(b)))

\* message_bytes.decode() of a decodable byte string
RECURSIVE Decode(_)
Decode(b) ==
    IF b = <<>> THEN <<>>
    ELSE IF Head(b) < 128 THEN <<Head(b)>> \o Decode(Tail(b))
    ELSE <<(Head(b) - 192) * 64 + (b[2] - 128)>> \o Decode(Tail(Tail(b)))

\* b' ' * n
Spaces(n) == [i \in 1..n |-> SPACE]

\* b''.join(...) of a sequence of byte strings
RECURSIVE Join(_)
Join(ss) == IF ss = <<>> THEN <<>> ELSE Head(ss) \o Join(Tail(ss))

\* ----------------------------------------------------------- fragmenter
\* msg_bytes[i:i + max_payload_size] for i in range(0, msg_bytes_len, max_payload_size)
\* (0-based i; the k-th slice, k = 0.., starts at byte k * max_payload_size)
Slices(msg_bytes, max_payload_size) ==
    LET n == (Len(msg_bytes) + max_payload_size - 1) \div max_payload_size
    IN  [k \in 1..n |->
            SubSeq(msg_bytes, (k - 1) * max_payload_size + 1,
                   Min(k * max_payload_size, Len(msg_bytes)))]

\* split_message_into_fragments with the padding of the last slice left out
split_without_padding(message, max_payload_size) ==
    LET fragments == Slices(Encode(message), max_payload_size)
    IN  [raised |-> fragments = <<>>, fragments |-> fragments]

\* split_message_into_fragments: range() with a step of 0 raises ValueError and
\* fragments[-1] of an empty list raises IndexError (raised = TRUE, nothing
\* returned); otherwise the last slice is padded with spaces
split_message_into_fragments(message, max_payload_size) ==
    IF max_payload_size = 0 THEN [raised |-> TRUE, fragments |-> <<>>]
    ELSE
    LET fragments == Slices(Encode(message), max_payload_size)
        n    == Len(fragments)
    IN  IF n = 0 THEN [raised |-> TRUE, fragments |-> <<>>]
        ELSE [raised |-> FALSE,
              fragments |->
                 IF Len(fragments[n]) < max_payload_size
                 THEN [fragments EXCEPT ![n] =
                          @ \o Spaces(max_payload_size - Len(fragments[n]))]
                 ELSE fragments]

\* ------------------------------------------------------------- receiver
\* a slot that holds no packet (None in the packets list)
None == [seq_num |-> -1, ack_msg |-> FALSE, data |-> <<>>]

\* the scan returning i, not i - 1, for the first None at 0-based index i
ScanAckOffByOne(packets) ==
    IF \E i \in 1..Len(packets) : packets[i] = None
    THEN (CHOOSE i \in 1..Len(packets) :
             /\ packets[i] = None
             /\ \A j \in 1..(i - 1) : packets[j] # None) - 1
    ELSE Len(packets) - 1

\* the scan at the end of handle_acknowledgement: i - 1 for the first None at
\* 0-based index i, len(packets) - 1 when there is none
ScanAck(packets) ==
    IF \E i \in 1..Len(packets) : packets[i] = None
    THEN (CHOOSE i \in 1..Len(packets) :
             /\ packets[i] = None
             /\ \A j \in 1..(i - 1) : packets[j] # None) - 2
    ELSE Len(packets) - 1

\* the placing with the append after the extend (server.py:42) left out
SlotPacketNoAppend(packets, packet) ==
    LET seq_num     == packet.seq_num
        packets_len == Len(packets)
    IN  IF seq_num = packets_len THEN Append(packets, packet)
        ELSE IF seq_num > packets_len
        THEN packets \o [i \in 1..(seq_num - packets_len) |-> None]
        ELSE IF packets[seq_num + 1] = None
        THEN [packets EXCEPT ![seq_num + 1] = packet]
        ELSE packets

\* the placing without the test that the slot is None (server.py:48)
SlotPacketOverwrite(packets, packet) ==
    LET seq_num     == packet.seq_num
        packets_len == Len(packets)
    IN  IF seq_num = packets_len THEN Append(packets, packet)
        ELSE IF seq_num > packets_len
        THEN Append(packets \o [i \in 1..(seq_num - packets_len) |-> None], packet)
        ELSE [packets EXCEPT ![seq_num + 1] = packet]

\* the three branches of handle_acknowledgement that place the packet
\* (slot seq_num is packets[seq_num + 1] here)
SlotPacket(packets, packet) ==
    LET seq_num     == packet.seq_num
        packets_len == Len(packets)
    IN  IF seq_num = packets_len THEN Append(packets, packet)
        ELSE IF seq_num > packets_len
        THEN Append(packets \o [i \in 1..(seq_num - packets_len) |-> None], packet)
        ELSE IF packets[seq_num + 1] = None
        THEN [packets EXCEPT ![seq_num + 1] = packet]
        ELSE packets

\* the call returning the number of the packet it was given, not the scan's
AckThePacket(packets, packet) ==
    [packets |-> SlotPacket(packets, packet), ack |-> packet.seq_num]

\* server.handle_acknowledgement(packets, packet): the list after the call and
\* the returned acknowledgement number
handle_acknowledgement(packets, packet) ==
    LET after == SlotPacket(packets, packet)
    IN  [packets |-> after, ack |-> ScanAck(after)]

\* -------------------------------------------------------------- packets
\* Packet(seq_num, data=fragment).pack(): a data frame
DataFrame(seq_num, fragment) ==
    [seq_num |-> seq_num, ack_msg |-> FALSE, data |-> fragment]

\* the terminator numbered last_ack, not last_ack + 1
TerminatorFrameAtLastAck(last_ack, max_payload_size) ==
    [seq_num |-> last_ack, ack_msg |-> TRUE, data |-> Spaces(max_payload_size)]

\* Packet(last_ack + 1, ack_msg=True, data=b' '*MAX_PAYLOAD_SIZE).pack()
TerminatorFrame(last_ack, max_payload_size) ==
    [seq_num |-> last_ack + 1, ack_msg |-> TRUE, data |-> Spaces(max_payload_size)]

\* the acknowledgement with its flag left false
AckFrameUnflagged(ack_number) ==
    [seq_num |-> ack_number, ack_msg |-> FALSE, data |-> <<>>]

\* the acknowledgement carrying the next number expected, not the last received
AckFrameNextExpected(ack_number) ==
    [seq_num |-> ack_number + 1, ack_msg |-> TRUE, data |-> <<>>]

\* Packet(ack_number, ack_msg=True).pack(): the receiver's acknowledgement
AckFrame(ack_number) ==
    [seq_num |-> ack_number, ack_msg |-> TRUE, data |-> <<>>]

\* ---------------------------------------------------------------- state
VARIABLES
    message,              \* client: the message to send (code points)
    MAX_MSG_SIZE,         \* server: the maximum payload size it announces
    SLIDING_WINDOW_SIZE,  \* client: the window size W
    MAX_PAYLOAD_SIZE,     \* client: the size parsed from the handshake (0 before)
    hello,                \* the handshake preamble in flight, server -> client
    c_pc,                 \* client main thread: where it is in initiate_connection /
                          \* handle_reliable_transmission
    message_fragments,    \* client: the fragment list
    window,               \* client: the deque of [seq_num, data, age]
    curr_ack,             \* client: the transmission loop's snapshot of LAST_ACKNOWLEDGED
    seq,                  \* client: next seq of the for loop at line 121
    stop,                 \* client: last_seq + remain, the end of that range
    todo,                 \* client: iterations left of the for loop of check_timeout
    LAST_ACKNOWLEDGED,    \* client: the shared last ack, under ack_lock
    a_pc,                 \* client ack thread: where it is in handle_acknowledgement
    ack_number,           \* client ack thread: the ack number just read
    c2s,                  \* frames in flight, client -> server (FIFO)
    s2c,                  \* frames in flight, server -> client (FIFO)
    conn,                 \* the connection: "up" or "reset"
    r_pc,                 \* server: where handle_client is
    packets,              \* server: the slot list
    r_out,                \* server: the message handle_client printed, if any
    ntimeouts,            \* timeouts that fired so far (bounds the clock)
    feed,                 \* frames the environment fed so far (receiver / ack intake alone)
    nsent,                \* history: data frames the client wrote to the stream
    max_sent,             \* history: highest data seq the client wrote (-1: none)
    terms,                \* history: the terminator frames the client wrote
    round                 \* history: the retransmission round under way: the window
                          \* when the timeout check fired, the frames resent since

vars == <<message, MAX_MSG_SIZE, SLIDING_WINDOW_SIZE, MAX_PAYLOAD_SIZE, hello, c_pc,
          message_fragments, window, curr_ack, seq, stop, todo, LAST_ACKNOWLEDGED,
          a_pc, ack_number, c2s, s2c, conn, r_pc, packets, r_out, ntimeouts, feed,
          nsent, max_sent, terms, round>>

config   == <<message, MAX_MSG_SIZE, SLIDING_WINDOW_SIZE>>
tx_vars  == <<c_pc, message_fragments, window, curr_ack, seq, stop, todo, MAX_PAYLOAD_SIZE>>
ack_vars == <<a_pc, ack_number>>
rcv_vars == <<r_pc, packets, r_out>>
hist     == <<nsent, max_sent, terms, round>>

\* final_seq = len(message_fragments) - 1 (client.py:84)
final_seq == Len(message_fragments) - 1

\* what handle_client has printed after its loop: nothing yet ("missing" is the
\* line "Error: Some packets are missing.", "printed" the line "Message received")
NoMessage == [missing |-> FALSE, printed |-> FALSE, bytes |-> <<>>, text |-> <<>>]

\* ------------------------------------------------------------ handshake
\* server.py:11
CLIENT_BUFFER_SIZE == 1024

\* str(n) for n >= 0, as ASCII bytes
RECURSIVE Str(_)
Str(n) == IF n < 10 THEN <<48 + n>> ELSE Str(n \div 10) \o <<48 + (n % 10)>>

\* str(MAX_MSG_SIZE).encode() padded with spaces to CLIENT_BUFFER_SIZE (server.py:74-79)
Preamble(n) == Str(n) \o Spaces(CLIENT_BUFFER_SIZE - Len(Str(n)))

\* the bytes with leading and trailing spaces removed (int() ignores them)
Strip(b) ==
    LET solid == {i \in 1..Len(b) : b[i] # SPACE}
    IN  IF solid = {} THEN <<>>
        ELSE SubSeq(b, CHOOSE i \in solid : \A j \in solid : i <= j,
                       CHOOSE i \in solid : \A j \in solid : i >= j)

IsDigits(b) == b # <<>> /\ \A i \in 1..Len(b) : b[i] >= 48 /\ b[i] <= 57

RECURSIVE DigitsValue(_)
DigitsValue(b) ==
    IF b = <<>> THEN 0 ELSE 10 * DigitsValue(SubSeq(b, 1, Len(b) - 1)) + (b[Len(b)] - 48)

\* int(connection_socket.recv(BUFFER_SIZE).decode()): ValueError unless digits
ParseInt(b) ==
    IF IsDigits(Strip(b)) THEN [raised |-> FALSE, value |-> DigitsValue(Strip(b))]
    ELSE [raised |-> TRUE, value |-> 0]

\* ------------------------------------------------------------ sockets
\* the client's socket is closed: initiate_connection left its with block
\* (returned, finished, or an exception went through it), or the peer that
\* stands for the client closed its end
ClientClosed == c_pc \in {"returned", "raised", "done", "gone"}

\* the server's socket is closed: handle_client left its with block, or its
\* host closed the server's end of the stream
ServerClosed == r_pc \in {"done", "crashed", "killed", "gone"}

\* what connection_socket.sendall(frame) does on the client: raised = TRUE is a
\* socket.error and nothing is written.  A reset connection raises.  A write to
\* a closed peer succeeds and is lost, and the peer answers it with a reset,
\* which may arrive before the client's next socket call (every later call then
\* raises) or after it.  A write to a peer that has left its receive loop is
\* never read
ClientWrite(frame) ==
    IF conn = "reset" THEN {[raised |-> TRUE, c2s |-> c2s, conn |-> conn]}
    ELSE IF ServerClosed
    THEN {[raised |-> FALSE, c2s |-> c2s, conn |-> "up"],
          [raised |-> FALSE, c2s |-> c2s, conn |-> "reset"]}
    ELSE IF r_pc # "recv" /\ r_pc # "hello"
    THEN {[raised |-> FALSE, c2s |-> c2s, conn |-> conn]}
    ELSE {[raised |-> FALSE, c2s |-> Append(c2s, frame), conn |-> conn]}

\* client_socket.sendall(ack) on the server: an ack to a closed client is lost
ServerWrite(frame) == IF ClientClosed THEN s2c ELSE Append(s2c, frame)

\* ------------------------------------------------------- window helpers
\* while window and window[0].seq_num <= curr_ack: window.popleft()
RECURSIVE Retire(_, _)
Retire(w, ack) ==
    IF w # <<>> /\ Head(w).seq_num <= ack THEN Retire(Tail(w), ack) ELSE w

\* deque(maxlen=SLIDING_WINDOW_SIZE).append(p): a full deque drops its head
DequeAppend(w, p) ==
    IF Len(w) >= SLIDING_WINDOW_SIZE THEN Append(Tail(w), p) ELSE Append(w, p)

\* the next sequence number taken after the last ack even when the window
\* holds packets
NextSeqAfterAck(w, ack) == ack + 1

\* client.py:109-114: the sequence number of the next new packet: the one after
\* the window's last packet, or after the last ack when the window is empty
NextSeq(w, ack) == IF w # <<>> THEN w[Len(w)].seq_num + 1 ELSE ack + 1

\* the number of new packets without the room left in the window
RemainToEnd(w, last_seq, last) == last - last_seq + 1

\* client.py:117-118: the number of new packets to send: the room left in the
\* window, or the packets left up to the last one (last = final_seq)
Remain(w, last_seq, last) == Min(SLIDING_WINDOW_SIZE - Len(w), last - last_seq + 1)

\* a packet as the window holds it, just sent (timestamp = time.time())
Stamped(seq_num, data) == [seq_num |-> seq_num, data |-> data, expired |-> FALSE]

\* the sequence numbers and payloads of the window's packets, head to tail
Packets(w) == [i \in 1..Len(w) |-> [seq_num |-> w[i].seq_num, data |-> w[i].data]]

\* time passes until the k oldest packets of the window are older than TIMEOUT
Older(w, k) == [i \in 1..Len(w) |-> IF i <= k THEN [w[i] EXCEPT !.expired = TRUE] ELSE w[i]]

\* the condition of check_timeout (client.py:164):
\* window and (time.time() - window[0].timestamp) > TIMEOUT
TimedOut(w) == w # <<>> /\ Head(w).expired

\* ----------------------------------------------------------------- Init
\* messages a session is run with: of 'a' and U+00E9, at most MaxLen bytes
SessionMessages == {m \in SeqsUpTo({97, 233}, MaxLen) : Len(Encode(m)) <= MaxLen}

NoFeed == [n |-> 0, seqs |-> {}, term |-> FALSE]

\* no retransmission round is under way
NoRound == [window |-> <<>>, resent |-> <<>>]

\* the state right after both programs are started and the connection is accepted
Init ==
    /\ message \in SessionMessages
    /\ MAX_MSG_SIZE \in 0..MaxM
    /\ SLIDING_WINDOW_SIZE \in 1..MaxW
    /\ MAX_PAYLOAD_SIZE = 0
    /\ hello = <<>>
    /\ c_pc = "connect"
    /\ message_fragments = <<>>
    /\ window = <<>>
    /\ curr_ack = -1
    /\ seq = 0 /\ stop = 0 /\ todo = 0
    /\ LAST_ACKNOWLEDGED = -1
    /\ a_pc = "idle"
    /\ ack_number = -1
    /\ c2s = <<>> /\ s2c = <<>>
    /\ conn = "up"
    /\ r_pc = "hello"
    /\ packets = <<>>
    /\ r_out = NoMessage
    /\ ntimeouts = 0
    /\ feed = NoFeed
    /\ nsent = 0 /\ max_sent = -1 /\ terms = <<>> /\ round = NoRound

\* ------------------------------------------- client: initiate_connection
\* the test for a zero size always failing
ZeroSizeIgnored(max_payload_size) == FALSE

\* client.py:206: if not max_payload_size
ZeroSize(max_payload_size) == max_payload_size = 0

\* client.py:197-223: read the preamble, parse it, return on a parse error, on
\* a socket error or on size 0
C_Handshake ==
    /\ c_pc = "connect"
    /\ \/ /\ conn = "up" /\ hello # <<>>
          /\ LET r == ParseInt(hello)
             IN  IF r.raised \/ ZeroSize(r.value)
                 THEN c_pc' = "returned" /\ UNCHANGED MAX_PAYLOAD_SIZE
                 ELSE c_pc' = "split" /\ MAX_PAYLOAD_SIZE' = r.value
          /\ hello' = <<>>
       \/ /\ conn = "reset"
          /\ c_pc' = "returned"
          /\ UNCHANGED <<MAX_PAYLOAD_SIZE, hello>>
    /\ UNCHANGED <<config, message_fragments, window, curr_ack, seq, stop, todo,
                   LAST_ACKNOWLEDGED, ack_vars, c2s, s2c, conn, rcv_vars, ntimeouts,
                   feed, hist>>

\* client.py:227-228: fragment the message; the IndexError of an empty message
\* is caught nowhere
C_Split ==
    /\ c_pc = "split"
    /\ LET r == split_message_into_fragments(message, MAX_PAYLOAD_SIZE)
       IN  IF r.raised
           THEN c_pc' = "raised" /\ UNCHANGED message_fragments
           ELSE c_pc' = "start" /\ message_fragments' = r.fragments
    /\ UNCHANGED <<config, MAX_PAYLOAD_SIZE, hello, window, curr_ack, seq, stop, todo,
                   LAST_ACKNOWLEDGED, ack_vars, c2s, s2c, conn, rcv_vars, ntimeouts,
                   feed, hist>>

\* ---------------------------------- client: handle_reliable_transmission
\* client.py:80-89: empty window, curr_ack = -1, start the ack thread
C_Start ==
    /\ c_pc = "start"
    /\ c_pc' = "while"
    /\ window' = <<>>
    /\ curr_ack' = -1
    /\ a_pc' = "l40"
    /\ UNCHANGED <<config, MAX_PAYLOAD_SIZE, hello, message_fragments, seq, stop, todo,
                   LAST_ACKNOWLEDGED, ack_number, c2s, s2c, conn, rcv_vars, ntimeouts,
                   feed, hist>>

\* client.py:92: while curr_ack < final_seq
T_While ==
    /\ c_pc = "while"
    /\ c_pc' = IF curr_ack < final_seq THEN "l95" ELSE "join"
    /\ UNCHANGED <<config, MAX_PAYLOAD_SIZE, hello, message_fragments, window, curr_ack,
                   seq, stop, todo, LAST_ACKNOWLEDGED, ack_vars, c2s, s2c, conn,
                   rcv_vars, ntimeouts, feed, hist>>

\* client.py:95-103: snapshot under the lock, test the window, and in the
\* not-full branch retire the acknowledged head packets
T_L95 ==
    /\ c_pc = "l95"
    /\ curr_ack' = LAST_ACKNOWLEDGED
    /\ IF Len(window) < SLIDING_WINDOW_SIZE
       THEN window' = Retire(window, LAST_ACKNOWLEDGED) /\ c_pc' = "l105"
       ELSE UNCHANGED window /\ c_pc' = "l137"
    /\ UNCHANGED <<config, MAX_PAYLOAD_SIZE, hello, message_fragments, seq, stop, todo,
                   LAST_ACKNOWLEDGED, ack_vars, c2s, s2c, conn, rcv_vars, ntimeouts,
                   feed, hist>>

\* client.py:105-121: snapshot again, choose last_seq and remain, enter the for loop
T_L105 ==
    /\ c_pc = "l105"
    /\ curr_ack' = LAST_ACKNOWLEDGED
    /\ LET last_seq == NextSeq(window, LAST_ACKNOWLEDGED)
           remain   == Remain(window, last_seq, final_seq)
       IN  seq' = last_seq /\ stop' = last_seq + remain
    /\ c_pc' = "l121"
    /\ UNCHANGED <<config, MAX_PAYLOAD_SIZE, hello, message_fragments, window, todo,
                   LAST_ACKNOWLEDGED, ack_vars, c2s, s2c, conn, rcv_vars, ntimeouts,
                   feed, hist>>

\* the for loop running on to the last fragment, its packets appended to a
\* list without maxlen
T_SendUnbounded ==
    /\ c_pc = "l121"
    /\ seq <= final_seq
    /\ \E w \in ClientWrite(DataFrame(seq, message_fragments[seq + 1])) :
          IF w.raised
          THEN /\ c_pc' = "raised"
               /\ UNCHANGED <<window, seq, c2s, conn, hist>>
          ELSE /\ c2s' = w.c2s
               /\ conn' = w.conn
               /\ window' = Append(window, Stamped(seq, message_fragments[seq + 1]))
               /\ seq' = seq + 1
               /\ nsent' = nsent + 1
               /\ max_sent' = IF seq > max_sent THEN seq ELSE max_sent
               /\ UNCHANGED <<c_pc, terms, round>>
    /\ UNCHANGED <<config, MAX_PAYLOAD_SIZE, hello, message_fragments, curr_ack, stop,
                   todo, LAST_ACKNOWLEDGED, ack_vars, s2c, rcv_vars, ntimeouts, feed>>

\* client.py:121-122 with send_packet (242-249): one iteration of the for loop.
\* A socket.error from sendall is caught nowhere in the main thread
T_Send ==
    /\ c_pc = "l121"
    /\ seq < stop
    /\ \E w \in ClientWrite(DataFrame(seq, message_fragments[seq + 1])) :
          IF w.raised
          THEN /\ c_pc' = "raised"
               /\ UNCHANGED <<window, seq, c2s, conn, hist>>
          ELSE /\ c2s' = w.c2s
               /\ conn' = w.conn
               /\ window' = DequeAppend(window, Stamped(seq, message_fragments[seq + 1]))
               /\ seq' = seq + 1
               /\ nsent' = nsent + 1
               /\ max_sent' = IF seq > max_sent THEN seq ELSE max_sent
               /\ UNCHANGED <<c_pc, terms, round>>
    /\ UNCHANGED <<config, MAX_PAYLOAD_SIZE, hello, message_fragments, curr_ack, stop,
                   todo, LAST_ACKNOWLEDGED, ack_vars, s2c, rcv_vars, ntimeouts, feed>>

\* client.py:124-130: the for loop is over; snapshot and retire
\* (seq and stop are dead from here on and are reset)
T_L124 ==
    /\ c_pc = "l121"
    /\ seq >= stop
    /\ curr_ack' = LAST_ACKNOWLEDGED
    /\ window' = Retire(window, LAST_ACKNOWLEDGED)
    /\ seq' = 0 /\ stop' = 0
    /\ c_pc' = "l132"
    /\ UNCHANGED <<config, MAX_PAYLOAD_SIZE, hello, message_fragments, todo,
                   LAST_ACKNOWLEDGED, ack_vars, c2s, s2c, conn, rcv_vars, ntimeouts,
                   feed, hist>>

\* client.py:132-133: the last snapshot of the not-full branch
T_L132 ==
    /\ c_pc = "l132"
    /\ curr_ack' = LAST_ACKNOWLEDGED
    /\ c_pc' = "l145"
    /\ UNCHANGED <<config, MAX_PAYLOAD_SIZE, hello, message_fragments, window, seq, stop,
                   todo, LAST_ACKNOWLEDGED, ack_vars, c2s, s2c, conn, rcv_vars,
                   ntimeouts, feed, hist>>

\* client.py:137-142: the full-window branch: snapshot and retire
T_L137 ==
    /\ c_pc = "l137"
    /\ curr_ack' = LAST_ACKNOWLEDGED
    /\ window' = Retire(window, LAST_ACKNOWLEDGED)
    /\ c_pc' = "l145"
    /\ UNCHANGED <<config, MAX_PAYLOAD_SIZE, hello, message_fragments, seq, stop, todo,
                   LAST_ACKNOWLEDGED, ack_vars, c2s, s2c, conn, rcv_vars, ntimeouts,
                   feed, hist>>

\* check_timeout resending the head packet alone
T_CheckTimeoutHeadOnly ==
    /\ c_pc = "l145"
    /\ IF TimedOut(window)
       THEN /\ c_pc' = "l169" /\ todo' = 1 /\ ntimeouts' = ntimeouts + 1
            /\ round' = [window |-> Packets(window), resent |-> <<>>]
       ELSE c_pc' = "while" /\ UNCHANGED <<todo, ntimeouts, round>>
    /\ UNCHANGED <<config, MAX_PAYLOAD_SIZE, hello, message_fragments, window, curr_ack,
                   seq, stop, LAST_ACKNOWLEDGED, ack_vars, c2s, s2c, conn, rcv_vars,
                   feed, nsent, max_sent, terms>>

\* client.py:145-146, 164-169: the test of check_timeout; when it fires the
\* resend loop runs len(window) times, otherwise the task sleeps and loops
T_CheckTimeout ==
    /\ c_pc = "l145"
    /\ IF TimedOut(window)
       THEN /\ c_pc' = "l169" /\ todo' = Len(window) /\ ntimeouts' = ntimeouts + 1
            /\ round' = [window |-> Packets(window), resent |-> <<>>]
       ELSE c_pc' = "while" /\ UNCHANGED <<todo, ntimeouts, round>>
    /\ UNCHANGED <<config, MAX_PAYLOAD_SIZE, hello, message_fragments, window, curr_ack,
                   seq, stop, LAST_ACKNOWLEDGED, ack_vars, c2s, s2c, conn, rcv_vars,
                   feed, nsent, max_sent, terms>>

\* client.py:169-175: one iteration of the resend loop: pop the head, send it
\* again, append it with a new timestamp
T_Resend ==
    /\ c_pc = "l169"
    /\ todo > 0
    /\ LET old_packet == Head(window)
       IN  \E w \in ClientWrite(DataFrame(old_packet.seq_num, old_packet.data)) :
              IF w.raised
              THEN /\ c_pc' = "raised"
                   /\ window' = Tail(window)
                   /\ UNCHANGED <<todo, c2s, conn, hist>>
              ELSE /\ c2s' = w.c2s
                   /\ conn' = w.conn
                   /\ window' = DequeAppend(Tail(window),
                                            Stamped(old_packet.seq_num, old_packet.data))
                   /\ todo' = todo - 1
                   /\ nsent' = nsent + 1
                   /\ max_sent' = IF old_packet.seq_num > max_sent
                                  THEN old_packet.seq_num ELSE max_sent
                   /\ round' = [round EXCEPT !.resent =
                                   Append(@, DataFrame(old_packet.seq_num, old_packet.data))]
                   /\ UNCHANGED <<c_pc, terms>>
    /\ UNCHANGED <<config, MAX_PAYLOAD_SIZE, hello, message_fragments, curr_ack, seq,
                   stop, LAST_ACKNOWLEDGED, ack_vars, s2c, rcv_vars, ntimeouts, feed>>

\* client.py:169, 146: the resend loop is over; sleep and loop
T_ResendDone ==
    /\ c_pc = "l169"
    /\ todo = 0
    /\ c_pc' = "while"
    /\ round' = NoRound
    /\ UNCHANGED <<config, MAX_PAYLOAD_SIZE, hello, message_fragments, window, curr_ack,
                   seq, stop, todo, LAST_ACKNOWLEDGED, ack_vars, c2s, s2c, conn,
                   rcv_vars, ntimeouts, feed, nsent, max_sent, terms>>

\* client.py:149-153: join the ack thread, then report "All fragments sent."
T_Join ==
    /\ c_pc = "join"
    /\ a_pc = "exit"
    /\ c_pc' = "done"
    /\ UNCHANGED <<config, MAX_PAYLOAD_SIZE, hello, message_fragments, window, curr_ack,
                   seq, stop, todo, LAST_ACKNOWLEDGED, ack_vars, c2s, s2c, conn,
                   rcv_vars, ntimeouts, feed, hist>>

\* ------------------------------ client ack thread: handle_acknowledgement
\* the thread's socket calls raise socket.error: the connection was reset, or
\* the main thread died and its with block closed the socket
AckSocketBroken == conn = "reset" \/ c_pc = "raised"

\* the test under the lock without the break after the terminator's sendall
A_CheckNoBreak ==
    /\ a_pc = "l40"
    /\ IF LAST_ACKNOWLEDGED = final_seq
       THEN /\ a_pc' = "l53"
            /\ IF AckSocketBroken
               THEN UNCHANGED <<c2s, conn, terms>>
               ELSE \E w \in ClientWrite(TerminatorFrame(final_seq, MAX_PAYLOAD_SIZE)) :
                       /\ c2s' = w.c2s
                       /\ conn' = w.conn
                       /\ terms' = Append(terms,
                              TerminatorFrame(final_seq, MAX_PAYLOAD_SIZE))
       ELSE a_pc' = "l53" /\ UNCHANGED <<c2s, conn, terms>>
    /\ UNCHANGED <<config, tx_vars, hello, LAST_ACKNOWLEDGED, ack_number, s2c,
                   rcv_vars, ntimeouts, feed, nsent, max_sent, round>>

\* client.py:40-50, 69-71: under the lock, when everything is acknowledged send
\* the terminator and leave; a socket.error from that sendall is caught, and the
\* thread leaves without having sent it
A_Check ==
    /\ a_pc = "l40"
    /\ IF LAST_ACKNOWLEDGED = final_seq
       THEN /\ a_pc' = "exit"
            /\ IF AckSocketBroken
               THEN UNCHANGED <<c2s, conn, terms>>
               ELSE \E w \in ClientWrite(TerminatorFrame(final_seq, MAX_PAYLOAD_SIZE)) :
                       /\ c2s' = w.c2s
                       /\ conn' = w.conn
                       /\ terms' = Append(terms,
                              TerminatorFrame(final_seq, MAX_PAYLOAD_SIZE))
       ELSE a_pc' = "l53" /\ UNCHANGED <<c2s, conn, terms>>
    /\ UNCHANGED <<config, tx_vars, hello, LAST_ACKNOWLEDGED, ack_number, s2c,
                   rcv_vars, ntimeouts, feed, nsent, max_sent, round>>

\* client.py:53, 56-60: recv returns an acknowledgement frame
A_Recv ==
    /\ a_pc = "l53"
    /\ ~AckSocketBroken
    /\ s2c # <<>>
    /\ ack_number' = Head(s2c).seq_num
    /\ s2c' = Tail(s2c)
    /\ a_pc' = "l63"
    /\ UNCHANGED <<config, tx_vars, hello, LAST_ACKNOWLEDGED, c2s, conn, rcv_vars,
                   ntimeouts, feed, hist>>

\* client.py:53-55: recv returns b'' (the peer closed and nothing is left to read)
A_RecvEmpty ==
    /\ a_pc = "l53"
    /\ ~AckSocketBroken
    /\ s2c = <<>>
    /\ ServerClosed
    /\ a_pc' = "exit"
    /\ UNCHANGED <<config, tx_vars, hello, LAST_ACKNOWLEDGED, ack_number, c2s, s2c, conn,
                   rcv_vars, ntimeouts, feed, hist>>

\* client.py:53, 69-71: recv raises socket.error
A_RecvError ==
    /\ a_pc = "l53"
    /\ AckSocketBroken
    /\ a_pc' = "exit"
    /\ UNCHANGED <<config, tx_vars, hello, LAST_ACKNOWLEDGED, ack_number, c2s, s2c, conn,
                   rcv_vars, ntimeouts, feed, hist>>

\* the assignment with its comparison turned around
NewLastAckInverted(ack, last) == IF ack < last THEN ack ELSE last

\* the assignment without its comparison
NewLastAckAlways(ack, last) == ack

\* the assignment of client.py:63-65 as a function of the ack read and the old value
NewLastAck(ack, last) == IF ack > last THEN ack ELSE last

\* client.py:63-65: under the lock, record the ack when it is greater
A_Update ==
    /\ a_pc = "l63"
    /\ LAST_ACKNOWLEDGED' = NewLastAck(ack_number, LAST_ACKNOWLEDGED)
    /\ a_pc' = "l40"
    /\ UNCHANGED <<config, tx_vars, hello, ack_number, c2s, s2c, conn, rcv_vars,
                   ntimeouts, feed, hist>>

\* -------------------------------------------------- server: handle_client
\* server.py:74-81: send the padded preamble
R_Hello ==
    /\ r_pc = "hello"
    /\ hello' = Preamble(MAX_MSG_SIZE)
    /\ r_pc' = "recv"
    /\ UNCHANGED <<config, tx_vars, LAST_ACKNOWLEDGED, ack_vars, c2s, s2c, conn, packets,
                   r_out, ntimeouts, feed, hist>>

\* server.py:91-116: read one frame, slot it, acknowledge when the returned
\* number is >= 0, and leave the loop when the frame carries ack_msg
R_Recv ==
    /\ r_pc = "recv"
    /\ conn = "up"
    /\ c2s # <<>>
    /\ LET packet == Head(c2s)
           res    == handle_acknowledgement(packets, packet)
       IN  /\ packets' = res.packets
           /\ s2c' = IF res.ack >= 0 THEN ServerWrite(AckFrame(res.ack)) ELSE s2c
           /\ r_pc' = IF packet.ack_msg THEN "post" ELSE "recv"
    /\ c2s' = Tail(c2s)
    /\ UNCHANGED <<config, tx_vars, hello, LAST_ACKNOWLEDGED, ack_vars, conn, r_out,
                   ntimeouts, feed, hist>>

\* server.py:91-93: recv returns b'' (the client closed and nothing is left)
R_Eof ==
    /\ r_pc = "recv"
    /\ conn = "up"
    /\ c2s = <<>>
    /\ ClientClosed
    /\ r_pc' = "post"
    /\ UNCHANGED <<config, tx_vars, hello, LAST_ACKNOWLEDGED, ack_vars, c2s, s2c, conn,
                   packets, r_out, ntimeouts, feed, hist>>

\* server.py:117-119: a socket.error ends the loop
R_SockError ==
    /\ r_pc = "recv"
    /\ conn = "reset"
    /\ r_pc' = "post"
    /\ UNCHANGED <<config, tx_vars, hello, LAST_ACKNOWLEDGED, ack_vars, c2s, s2c, conn,
                   packets, r_out, ntimeouts, feed, hist>>

\* the data of every slot, in order (server.py:129, for a list without None)
SlotData(ps) == [i \in 1..Len(ps) |-> ps[i].data]

\* server.py:125-131: after the loop.  The check for missing packets only
\* prints its error line; x.data of a None slot then raises AttributeError and
\* an undecodable byte string raises UnicodeDecodeError, both caught nowhere;
\* otherwise the message is printed
R_Finish ==
    /\ r_pc = "post"
    /\ LET missing == packets = <<>> \/ \E i \in 1..Len(packets) : packets[i] = None
       IN  IF (\E i \in 1..Len(packets) : packets[i] = None)
              \/ ~Decodable(Join(SlotData(packets)))
           THEN /\ r_pc' = "crashed"
                /\ r_out' = [r_out EXCEPT !.missing = missing]
           ELSE /\ r_pc' = "done"
                /\ r_out' = [missing |-> missing, printed |-> TRUE,
                             bytes |-> Join(SlotData(packets)),
                             text |-> Decode(Join(SlotData(packets)))]
    /\ UNCHANGED <<config, tx_vars, hello, LAST_ACKNOWLEDGED, ack_vars, c2s, s2c, conn,
                   packets, ntimeouts, feed, hist>>

\* ---------------------------------------------------------- environment
\* time passes: some of the oldest packets in the window become older than
\* TIMEOUT (no more often than the bound on retransmission rounds allows)
Tick ==
    /\ c_pc \in {"while", "l95", "l105", "l121", "l132", "l137", "l145"}
    /\ ntimeouts < MaxTimeouts
    /\ \E k \in 1..Len(window) :
          /\ Older(window, k) # window
          /\ window' = Older(window, k)
    /\ UNCHANGED <<config, MAX_PAYLOAD_SIZE, hello, c_pc, message_fragments, curr_ack,
                   seq, stop, todo, LAST_ACKNOWLEDGED, ack_vars, c2s, s2c, conn,
                   rcv_vars, ntimeouts, feed, hist>>

\* the session is under way on the client
InSession == c_pc \in {"while", "l95", "l105", "l121", "l132", "l137", "l145", "l169", "join"}

\* the connection is reset: from now on every socket call raises socket.error
ConnReset ==
    /\ conn = "up"
    /\ InSession
    /\ r_pc = "recv"
    /\ conn' = "reset"
    /\ UNCHANGED <<config, tx_vars, hello, LAST_ACKNOWLEDGED, ack_vars, c2s, s2c,
                   rcv_vars, ntimeouts, feed, hist>>

\* the server's host closes the server's end of the stream in mid-session
PeerClose ==
    /\ conn = "up"
    /\ InSession
    /\ r_pc = "recv"
    /\ r_pc' = "killed"
    /\ UNCHANGED <<config, tx_vars, hello, LAST_ACKNOWLEDGED, ack_vars, c2s, s2c, conn,
                   packets, r_out, ntimeouts, feed, hist>>

\* ------------------------------------------------------- specifications
ClientMain ==
    \/ C_Handshake \/ C_Split \/ C_Start
    \/ T_While \/ T_L95 \/ T_L105 \/ T_Send \/ T_L124 \/ T_L132 \/ T_L137
    \/ T_CheckTimeout \/ T_Resend \/ T_ResendDone \/ T_Join

AckThread == A_Check \/ A_Recv \/ A_RecvEmpty \/ A_RecvError \/ A_Update

Receiver == R_Hello \/ R_Recv \/ R_Eof \/ R_SockError \/ R_Finish

\* a session between this client and this server, with the faults of the stream
Next == ClientMain \/ AckThread \/ Receiver \/ Tick \/ ConnReset \/ PeerClose

Spec == Init /\ [][Next]_vars

\* --------------------------------------------- the fragmenter on its own
\* the client after any handshake that announced a size >= 1, about to fragment
\* any message
InitFrag ==
    /\ message \in Messages
    /\ MAX_MSG_SIZE \in 1..MaxM
    /\ SLIDING_WINDOW_SIZE \in 1..MaxW
    /\ MAX_PAYLOAD_SIZE = MAX_MSG_SIZE
    /\ hello = <<>>
    /\ c_pc = "split"
    /\ message_fragments = <<>>
    /\ window = <<>>
    /\ curr_ack = -1
    /\ seq = 0 /\ stop = 0 /\ todo = 0
    /\ LAST_ACKNOWLEDGED = -1
    /\ a_pc = "idle"
    /\ ack_number = -1
    /\ c2s = <<>> /\ s2c = <<>>
    /\ conn = "up"
    /\ r_pc = "recv"
    /\ packets = <<>>
    /\ r_out = NoMessage
    /\ ntimeouts = 0
    /\ feed = NoFeed
    /\ nsent = 0 /\ max_sent = -1 /\ terms = <<>> /\ round = NoRound

NextFrag == C_Split \/ C_Start

SpecFrag == InitFrag /\ [][NextFrag]_vars

\* ----------------------------------------------- the receiver on its own
\* handle_client in its loop, with a peer that delivers the data frames of a
\* fragmented message in any order, any number of times, then the terminator
InitRecv ==
    /\ message \in SessionMessages \ {<<>>}
    /\ MAX_MSG_SIZE \in 1..MaxM
    /\ SLIDING_WINDOW_SIZE = 1
    /\ MAX_PAYLOAD_SIZE = MAX_MSG_SIZE
    /\ hello = <<>>
    /\ c_pc = "peer"
    /\ message_fragments = split_message_into_fragments(message, MAX_MSG_SIZE).fragments
    /\ window = <<>>
    /\ curr_ack = -1
    /\ seq = 0 /\ stop = 0 /\ todo = 0
    /\ LAST_ACKNOWLEDGED = -1
    /\ a_pc = "idle"
    /\ ack_number = -1
    /\ c2s = <<>> /\ s2c = <<>>
    /\ conn = "up"
    /\ r_pc = "recv"
    /\ packets = <<>>
    /\ r_out = NoMessage
    /\ ntimeouts = 0
    /\ feed = NoFeed
    /\ nsent = 0 /\ max_sent = -1 /\ terms = <<>> /\ round = NoRound

\* the peer delivers the data frame of one fragment (again or for the first time)
FeedData ==
    /\ c_pc = "peer" /\ r_pc = "recv"
    /\ c2s = <<>>
    /\ ~feed.term
    /\ feed.n < MaxFeed
    /\ \E s \in 0..final_seq :
          /\ c2s' = <<DataFrame(s, message_fragments[s + 1])>>
          /\ feed' = [feed EXCEPT !.n = @ + 1, !.seqs = @ \cup {s}]
    /\ UNCHANGED <<config, tx_vars, hello, LAST_ACKNOWLEDGED, ack_vars, s2c, conn,
                   rcv_vars, ntimeouts, hist>>

\* the peer delivers the terminator, once every fragment was delivered
FeedTerminator ==
    /\ c_pc = "peer" /\ r_pc = "recv"
    /\ c2s = <<>>
    /\ ~feed.term
    /\ feed.seqs = 0..final_seq
    /\ c2s' = <<TerminatorFrame(final_seq, MAX_PAYLOAD_SIZE)>>
    /\ feed' = [feed EXCEPT !.term = TRUE]
    /\ UNCHANGED <<config, tx_vars, hello, LAST_ACKNOWLEDGED, ack_vars, s2c, conn,
                   rcv_vars, ntimeouts, hist>>

\* the peer closes its end of the stream
FeedClose ==
    /\ c_pc = "peer"
    /\ c_pc' = "gone"
    /\ UNCHANGED <<config, MAX_PAYLOAD_SIZE, hello, message_fragments, window, curr_ack,
                   seq, stop, todo, LAST_ACKNOWLEDGED, ack_vars, c2s, s2c, conn,
                   rcv_vars, ntimeouts, feed, hist>>

NextRecv == FeedData \/ FeedTerminator \/ FeedClose \/ R_Recv \/ R_Eof \/ R_Finish

SpecRecv == InitRecv /\ [][NextRecv]_vars

\* ------------------------------------------------- the sender on its own
\* handle_reliable_transmission about to start, with a peer that reads what is
\* sent and delivers any acknowledgement numbers in any order, soon enough for
\* no packet to time out
InitSender ==
    /\ message \in SessionMessages \ {<<>>}
    /\ MAX_MSG_SIZE \in 1..MaxM
    /\ SLIDING_WINDOW_SIZE \in 1..MaxW
    /\ MAX_PAYLOAD_SIZE = MAX_MSG_SIZE
    /\ hello = <<>>
    /\ c_pc = "start"
    /\ message_fragments = split_message_into_fragments(message, MAX_MSG_SIZE).fragments
    /\ window = <<>>
    /\ curr_ack = -1
    /\ seq = 0 /\ stop = 0 /\ todo = 0
    /\ LAST_ACKNOWLEDGED = -1
    /\ a_pc = "idle"
    /\ ack_number = -1
    /\ c2s = <<>> /\ s2c = <<>>
    /\ conn = "up"
    /\ r_pc = "peer"
    /\ packets = <<>>
    /\ r_out = NoMessage
    /\ ntimeouts = 0
    /\ feed = NoFeed
    /\ nsent = 0 /\ max_sent = -1 /\ terms = <<>> /\ round = NoRound

\* the peer delivers an acknowledgement frame with any number
FeedAck ==
    /\ r_pc = "peer"
    /\ s2c = <<>>
    /\ feed.n < MaxAcks
    /\ \E a \in 0..(final_seq + 1) :
          /\ s2c' = <<AckFrame(a)>>
          /\ feed' = [feed EXCEPT !.n = @ + 1]
    /\ UNCHANGED <<config, tx_vars, hello, LAST_ACKNOWLEDGED, ack_vars, c2s, conn,
                   rcv_vars, ntimeouts, hist>>

\* the peer closes its end of the stream
FeedAckClose ==
    /\ r_pc = "peer"
    /\ r_pc' = "gone"
    /\ UNCHANGED <<config, tx_vars, hello, LAST_ACKNOWLEDGED, ack_vars, c2s, s2c, conn,
                   packets, r_out, ntimeouts, feed, hist>>

NextSender ==
    \/ C_Start
    \/ T_While \/ T_L95 \/ T_L105 \/ T_Send \/ T_L124 \/ T_L132 \/ T_L137
    \/ T_CheckTimeout \/ T_Join
    \/ A_Check \/ A_Recv \/ A_RecvEmpty \/ A_RecvError \/ A_Update
    \/ FeedAck \/ FeedAckClose

SpecSender == InitSender /\ [][NextSender]_vars

\* ------------------------------------- a session over a reliable stream
\* the steps of the three tasks when the stream delivers everything and
\* raises nothing
ClientMainReliable ==
    \/ C_Handshake \/ C_Split \/ C_Start
    \/ T_While \/ T_L95 \/ T_L105 \/ T_Send \/ T_L124 \/ T_L132 \/ T_L137
    \/ T_CheckTimeout \/ T_Resend \/ T_ResendDone \/ T_Join

AckThreadReliable == A_Check \/ A_Recv \/ A_Update

ReceiverReliable == R_Hello \/ R_Recv \/ R_Eof \/ R_Finish

NextReliable == ClientMainReliable \/ AckThreadReliable \/ ReceiverReliable \/ Tick

\* each thread that can take a step eventually takes one (the operating
\* system schedules the two client threads and the server thread fairly)
SpecLive ==
    /\ Init /\ [][NextReliable]_vars
    /\ WF_vars(ClientMainReliable)
    /\ WF_vars(AckThreadReliable)
    /\ WF_vars(ReceiverReliable)

\* ================================================================ claims

\* C1 (as claimed): when every fragment 0..final_seq was delivered at least
\* once, in any order, and then the terminator, the message handle_client puts
\* out is exactly the concatenation of the fragments 0..final_seq, with no
\* other bytes appended.
C1_ExactReassembly ==
    (r_pc = "done" /\ feed.term) => r_out.bytes = Join(message_fragments)

\* C2 (as claimed): no partial message: a message is put out only when every
\* slot 0..final_seq is filled, and a stream that ends before the terminator
\* arrived ends in an error with no message put out.
C2_NoPartialMessage ==
    /\ r_out.printed =>
          /\ Len(packets) >= final_seq + 1
          /\ \A i \in 1..(final_seq + 1) : packets[i] # None
    /\ (r_pc \in {"done", "crashed"} /\ ~feed.term) =>
          /\ ~r_out.printed
          /\ r_out.missing \/ r_pc = "crashed"

\* the session reached the end C3 speaks of
SessionOver ==
    /\ LAST_ACKNOWLEDGED = final_seq
    /\ Len(terms) >= 1
    /\ a_pc = "exit"
    /\ c_pc \in {"join", "done", "raised"}
    /\ r_pc \in {"post", "done", "crashed"}

\* C3: over a reliable stream and with the three tasks scheduled fairly, a
\* session with a non-empty message and a maximum payload size >= 1 eventually
\* reaches a state where last_ack = final_seq, the terminator was sent, both
\* sender tasks have left their loops and the receiver has left its loop.
C3_SessionTerminates ==
    (message # <<>> /\ MAX_MSG_SIZE >= 1) => <>SessionOver

\* C3's case: a session of three fragments or more ran to its end, and both
\* programs finished
C3_Witness ==
    /\ SessionOver
    /\ final_seq >= 2
    /\ c_pc = "done"
    /\ r_pc = "done"

\* C4: the shared last ack never decreases; a step changes it only to an ack
\* number just read that is greater than it, and recording an ack that is not
\* greater leaves it unchanged.
C4_LastAckMonotonic ==
    [][/\ LAST_ACKNOWLEDGED' >= LAST_ACKNOWLEDGED
       /\ (LAST_ACKNOWLEDGED' # LAST_ACKNOWLEDGED) =>
             /\ a_pc = "l63"
             /\ ack_number > LAST_ACKNOWLEDGED
             /\ LAST_ACKNOWLEDGED' = ack_number
       /\ (a_pc = "l63" /\ a_pc' = "l40" /\ ack_number <= LAST_ACKNOWLEDGED) =>
             LAST_ACKNOWLEDGED' = LAST_ACKNOWLEDGED]_vars

\* C4's case: the intake has just recorded an ack lower than the last ack, after
\* the last ack had grown twice
C4_Witness ==
    /\ a_pc = "l40"
    /\ ack_number >= 0
    /\ ack_number < LAST_ACKNOWLEDGED
    /\ LAST_ACKNOWLEDGED >= 1
    /\ feed.n >= 3

\* packets a receiver may be handed: any sequence number up to two past the
\* last fragment's, as a data frame or with the flag set
Candidates ==
    {[seq_num |-> s, ack_msg |-> f, data |-> Spaces(MAX_MSG_SIZE)] :
        s \in 0..(final_seq + 2), f \in BOOLEAN}

\* the largest s such that slots 0..s are all filled, -1 when slot 0 is absent
CumulativeAck(ps) ==
    LET full == {s \in 0..(Len(ps) - 1) : \A i \in 0..s : ps[i + 1] # None}
    IN  IF full = {} THEN -1 ELSE CHOOSE s \in full : \A t \in full : t <= s

\* C5: after slotting any packet into any slot state, handle_acknowledgement
\* returns the largest s such that slots 0..s are all filled, or -1 when slot 0
\* is absent.
C5_CumulativeAck ==
    \A p \in Candidates :
        LET res == handle_acknowledgement(packets, p)
        IN  res.ack = CumulativeAck(res.packets)

\* C5's case: the receiver slotted packets out of order, so that the slot list
\* has a gap after slot 0, and acknowledged 0
C5_Witness ==
    /\ Len(packets) >= 3
    /\ packets[1] # None
    /\ packets[2] = None
    /\ c2s = <<>>
    /\ s2c # <<>>
    /\ s2c[Len(s2c)].seq_num = 0

\* C6: slotting the same packet twice in a row leaves the slot list and the
\* returned ack as slotting it once does, for every slot state and every
\* sequence number.
C6_SlotIdempotent ==
    \A p \in Candidates :
        LET once  == handle_acknowledgement(packets, p)
            twice == handle_acknowledgement(once.packets, p)
        IN  twice = once

\* C6's case: the receiver was handed some packet more than once, and the slot
\* list has a gap that a packet beyond its end made
C6_Witness ==
    /\ feed.n > Cardinality(feed.seqs)
    /\ c2s = <<>>
    /\ Len(packets) >= 2
    /\ \E i \in 1..Len(packets) : packets[i] = None

\* ceil(a / b) for b >= 1: the least n with n * b >= a
CeilDiv(a, b) == CHOOSE n \in 0..a : n * b >= a /\ (n - 1) * b < a

\* C7: for a non-empty message of bytes B and M >= 1 the fragmenter returns
\* exactly ceil(|B| / M) fragments, each of length exactly M, whose
\* concatenation is B followed only by the spaces that fill the last fragment.
C7_Fragments ==
    (c_pc # "split" /\ message # <<>>) =>
        LET B == Encode(message)
            M == MAX_PAYLOAD_SIZE
            n == CeilDiv(Len(B), M)
        IN  /\ c_pc \in {"start", "while"}
            /\ Len(message_fragments) = n
            /\ \A i \in 1..n : Len(message_fragments[i]) = M
            /\ Join(message_fragments) = B \o Spaces(n * M - Len(B))
            /\ n * M - Len(B) < M

\* C7's case: a message was cut into several fragments and the last one padded
C7_Witness ==
    /\ c_pc = "start"
    /\ Len(message_fragments) >= 2
    /\ Len(Encode(message)) % MAX_PAYLOAD_SIZE # 0
    /\ Len(Encode(message)) > Len(message)

\* C8 (as claimed): for an empty message and any M >= 1 the fragmenter produces
\* exactly one fragment of M spaces, and the sender goes on to transmit it.
C8_EmptyMessage ==
    (message = <<>> /\ c_pc \notin {"connect", "split", "returned"}) =>
        /\ c_pc # "raised"
        /\ message_fragments = <<Spaces(MAX_PAYLOAD_SIZE)>>

\* C9 (as claimed): the sender's run reports success only in a state where
\* last_ack = final_seq, the terminator has been sent and the ack-intake task
\* has exited.
C9_SuccessMeansTerminated ==
    c_pc = "done" =>
        /\ LAST_ACKNOWLEDGED = final_seq
        /\ Len(terms) >= 1
        /\ a_pc = "exit"

\* C10 (as claimed): once the ack-intake task has exited before last_ack reached
\* final_seq, the transmission task writes no further packet to the stream.
C10_TransmissionStops ==
    [][(a_pc = "exit" /\ LAST_ACKNOWLEDGED < final_seq) => nsent' = nsent]_vars

\* C11: when the maximum payload size the sender parses from the handshake is
\* 0, the sender aborts: it starts neither the transmission task nor the
\* ack-intake task and writes no packet to the stream.
C11_ZeroSizeAborts ==
    MAX_MSG_SIZE = 0 =>
        /\ c_pc \in {"connect", "returned"}
        /\ a_pc = "idle"
        /\ MAX_PAYLOAD_SIZE = 0
        /\ message_fragments = <<>>
        /\ nsent = 0 /\ terms = <<>> /\ c2s = <<>>

\* C11's case: the sender read the preamble of a server that announced 0 and
\* returned
C11_Witness ==
    /\ MAX_MSG_SIZE = 0
    /\ r_pc = "recv"
    /\ hello = <<>>
    /\ c_pc = "returned"

\* C12 (as claimed): when the receiver reads a packet with the flag set, it
\* leaves its loop without changing the slot list: the terminator is never put
\* into a slot, and the slot list never has more than final_seq + 1 slots.
C12_TerminatorNotSlotted ==
    [][/\ (r_pc = "recv" /\ c2s # <<>> /\ Head(c2s).ack_msg /\ r_pc' = "post") =>
             packets' = packets
       /\ Len(packets') <= final_seq + 1]_vars

\* C13 (as claimed): the receiver sends no frame in answer to the terminator,
\* and every ack number it ever emits is at most final_seq.
C13_TerminatorNotAcked ==
    [][/\ (r_pc = "recv" /\ c2s # <<>> /\ Head(c2s).ack_msg /\ r_pc' = "post") =>
             s2c' = s2c
       /\ \A i \in 1..Len(s2c') : s2c'[i].seq_num <= final_seq]_vars

\* C14: the sender emits the terminator at most once in a session, only in a
\* state where last_ack = final_seq, and the terminator carries
\* seq = final_seq + 1, the flag set and a payload of exactly M bytes.
C14_TerminatorOnce ==
    [][terms' # terms =>
          /\ terms = <<>>
          /\ Len(terms') = 1
          /\ LAST_ACKNOWLEDGED = final_seq
          /\ LAST_ACKNOWLEDGED' = final_seq
          /\ terms'[1].seq_num = final_seq + 1
          /\ terms'[1].ack_msg = TRUE
          /\ Len(terms'[1].data) = MAX_MSG_SIZE
          /\ (c2s' # c2s => c2s' = Append(c2s, terms'[1]))]_vars

\* C14's case: a session of two fragments or more in which the terminator was
\* sent, the intake has left and the sender reported success
C14_Witness ==
    /\ Len(terms) = 1
    /\ final_seq >= 1
    /\ a_pc = "exit"
    /\ c_pc = "done"

\* C15 (as claimed): after the sender has written the terminator to the stream
\* it writes no further data packet, new or retransmitted, under every
\* interleaving of the transmission task and the ack-intake task.
C15_NoDataAfterTerminator ==
    [][terms # <<>> => nsent' = nsent]_vars

\* C16: whenever the sender transmits a data packet for the first time, its
\* sequence number is at most last_ack + W, last_ack being the shared value at
\* that moment (so with W = 1 fragment n + 1 is never sent before an ack >= n
\* has been recorded).
C16_FirstSendWithinWindow ==
    [][/\ (c_pc = "l121" /\ nsent' # nsent) =>
             seq <= LAST_ACKNOWLEDGED + SLIDING_WINDOW_SIZE
       /\ max_sent' # max_sent =>
             /\ max_sent' > max_sent
             /\ max_sent' <= LAST_ACKNOWLEDGED + SLIDING_WINDOW_SIZE
             /\ (SLIDING_WINDOW_SIZE = 1 => LAST_ACKNOWLEDGED >= max_sent' - 1)]_vars

\* C16's case: the sender has sent for the first time a packet W past the last
\* ack, beyond the first window
C16_Witness ==
    /\ max_sent = LAST_ACKNOWLEDGED + SLIDING_WINDOW_SIZE
    /\ LAST_ACKNOWLEDGED >= 0
    /\ c_pc = "l121"
    /\ window # <<>>
    /\ window[Len(window)].seq_num = max_sent

\* C17: in every reachable state of the transmission task the send window
\* holds at most W packets.
C17_WindowBounded ==
    Len(window) <= SLIDING_WINDOW_SIZE

\* C17's case: a window of W = 2 is full in the middle of a retransmission round
C17_Witness ==
    /\ SLIDING_WINDOW_SIZE = 2
    /\ Len(window) = 2
    /\ c_pc = "l169"
    /\ todo = 1

\* the sequence numbers of w are strictly increasing and contiguous
Contiguous(w) == \A i \in 1..(Len(w) - 1) : w[i + 1].seq_num = w[i].seq_num + 1

\* C18 (as claimed): in every reachable state of the transmission task, each
\* packet send counted as one step, the sequence numbers in the send window
\* read from head to tail are strictly increasing and contiguous.
C18_WindowContiguous ==
    Contiguous(window)

\* C18 (amended): outside a retransmission round of check_timeout the sequence
\* numbers in the send window are strictly increasing and contiguous; within a
\* round, with todo packets still to resend, the window is such a sequence
\* rotated: the packets still to resend first, the packets resent after them.
C18_WindowContiguousOrRotated ==
    /\ c_pc \notin {"l169", "raised"} => Contiguous(window)
    /\ c_pc = "l169" =>
          /\ todo <= Len(window)
          /\ Contiguous(SubSeq(window, todo + 1, Len(window)) \o SubSeq(window, 1, todo))

\* C18's case: in the middle of a retransmission round the window holds packet
\* 1 before packet 0
C18_Witness ==
    /\ c_pc = "l169"
    /\ todo = 1
    /\ Len(window) = 2
    /\ window[1].seq_num = 1
    /\ window[2].seq_num = 0

AckFramesWithFlag(flag) ==
    LET processed == r_pc = "recv" /\ c2s # <<>> /\ c2s' = Tail(c2s)
        A         == CumulativeAck(packets')
    IN  /\ \A i \in 1..Len(s2c') : s2c'[i].ack_msg = flag /\ s2c'[i].data = <<>>
        /\ processed =>
              IF A >= 0 /\ ~ClientClosed
              THEN s2c' = Append(s2c, [seq_num |-> A, ack_msg |-> flag, data |-> <<>>])
              ELSE s2c' = s2c
        /\ s2c' # s2c => processed

\* C20 (as claimed): every ack frame the receiver emits has the flag false and
\* an empty payload, and an ack frame is emitted after a packet is processed if
\* and only if the cumulative ack A is >= 0.
C20_AckFramesUnflagged ==
    [][AckFramesWithFlag(FALSE)]_vars

\* C20 (amended): every ack frame the receiver emits has the flag set and an
\* empty payload, and an ack frame is emitted after a packet is processed if
\* and only if the cumulative ack A is >= 0.
C20_AckFramesFlagged ==
    [][AckFramesWithFlag(TRUE)]_vars

\* C20's case: the receiver has processed a packet without emitting an ack
\* (slot 0 was absent) and has emitted acks for later ones
C20_Witness ==
    /\ c_pc = "peer"
    /\ c2s = <<>>
    /\ s2c # <<>>
    /\ feed.n > Len(s2c)
    /\ ~feed.term

\* packets that rival the ones a slot list holds: any sequence number up to two
\* past the last fragment's, either flag, an empty payload or one of spaces
Rivals ==
    {[seq_num |-> s, ack_msg |-> f, data |-> d] :
        s \in 0..(final_seq + 2), f \in BOOLEAN, d \in {<<>>, Spaces(MAX_MSG_SIZE)}}

\* every filled slot of before is left as it is in after, and after is no shorter
SlotsKept(before, after) ==
    /\ Len(after) >= Len(before)
    /\ \A i \in 1..Len(before) : before[i] # None => after[i] = before[i]

\* C21: once a receiver slot is filled, no later packet with the same sequence
\* number, whatever its payload, and no other packet changes its contents; the
\* slot list never shrinks and a filled slot never becomes absent.
C21_SlotsNeverOverwritten ==
    [][/\ SlotsKept(packets, packets')
       /\ \A p \in Rivals : SlotsKept(packets', handle_acknowledgement(packets', p).packets)]_vars

\* C21's case: the receiver was handed a packet again after its slot was
\* filled, and every slot of a list of two or more is filled
C21_Witness ==
    /\ feed.n > Cardinality(feed.seqs)
    /\ c2s = <<>>
    /\ Len(packets) >= 2
    /\ \A i \in 1..Len(packets) : packets[i] # None

\* C22: the ack numbers the receiver emits over a session never decrease, for
\* any arrival order of the data packets, duplicates and out-of-order delivery
\* included.
C22_AcksNonDecreasing ==
    \A i \in 1..Len(s2c) : \A j \in i..Len(s2c) : s2c[i].seq_num <= s2c[j].seq_num

\* C22's case: the receiver emitted the same ack twice and then one higher by
\* two or more (a gap was filled)
C22_Witness ==
    /\ c_pc = "peer"
    /\ Len(s2c) >= 3
    /\ s2c[1].seq_num = s2c[2].seq_num
    /\ s2c[3].seq_num >= s2c[2].seq_num + 2

\* C23 (as claimed): on the sender only the transmission task writes to the
\* stream and only the ack-intake task reads from it: the ack-intake task never
\* performs a write and the transmission task never performs a read.
C23_SplitStream ==
    [][/\ (nsent' # nsent \/ terms' # terms \/ Len(c2s') > Len(c2s)) =>
             (tx_vars' # tx_vars /\ ack_vars' = ack_vars)
       /\ Len(s2c') < Len(s2c) =>
             (ack_vars' # ack_vars /\ tx_vars' = tx_vars)]_vars

\* C23 (amended): on the sender only the ack-intake task reads from the stream;
\* every data packet is written by the transmission task, and the one write of
\* the ack-intake task is the terminator, after which it leaves.
C23_SplitStreamButTerminator ==
    [][/\ nsent' # nsent => (tx_vars' # tx_vars /\ ack_vars' = ack_vars)
       /\ terms' # terms =>
             (ack_vars' # ack_vars /\ tx_vars' = tx_vars /\ a_pc' = "exit")
       /\ Len(c2s') > Len(c2s) => (nsent' # nsent \/ terms' # terms)
       /\ Len(s2c') < Len(s2c) =>
             (ack_vars' # ack_vars /\ tx_vars' = tx_vars)]_vars

\* C23's case: the transmission task wrote data packets, the intake read their
\* acks and wrote the terminator, and the transmission task has left its loop
C23_Witness ==
    /\ nsent >= 2
    /\ Len(terms) = 1
    /\ a_pc = "exit"
    /\ c_pc = "join"

\* C24: in every reachable state of a session between this sender and this
\* receiver, -1 <= last_ack <= the highest sequence number the sender has sent
\* so far <= final_seq.
C24_LastAckWithinSent ==
    /\ -1 <= LAST_ACKNOWLEDGED
    /\ LAST_ACKNOWLEDGED <= max_sent
    /\ max_sent <= final_seq

\* C24's case: of three fragments or more all were sent and some, not all, are
\* acknowledged
C24_Witness ==
    /\ final_seq >= 2
    /\ max_sent = final_seq
    /\ LAST_ACKNOWLEDGED >= 0
    /\ LAST_ACKNOWLEDGED < max_sent

====
